---- MODULE Spec2Model ----
(***************************************************************************)
(* A model of clint.arguments.Args (src/clint/arguments.py): the CLI       *)
(* argument list wrapper, its constructor, its accessors and its two       *)
(* mutators.  Tokens are strings; Python values are tagged records so that *)
(* None, 0, False and a raised exception stay distinct.  List objects live *)
(* in a heap of named cells so that two Args objects sharing one list      *)
(* object is something the model can express.                              *)
(***************************************************************************)
EXTENDS Integers, Sequences, FiniteSets, TLC

(* ------------------------------ bounds --------------------------------- *)

\* longest argument list drawn in Init
MaxLen == 3
\* longest collection of candidates passed to an operation
MaxCand == 2

\* the argument tokens lists are drawn from: two flags, a plain token, and a
\* token that contains "-" without starting with it
Tokens == {"-", "a", "-a", "a-"}
\* the tokens of the lists that are mutated (remove/pop compare by equality only)
MutTokens == {"a", "-a", "a-"}
\* the lists the documentation uses as examples, and one that repeats a flag
Examples == {<<"-a", "1", "2", "-b", "3">>, <<"-a", "b", "-c">>,
             <<"x", "-a", "1", "-b", "2", "-a", "3">>}
\* the process argument vectors (program name first)
ArgvSet == {<<"prog">>, <<"prog", "-a", "a">>}

SeqsUpTo(S, n) == UNION {[1..k -> S] : k \in 0..n}
Indices == (0 - (MaxLen + 1))..(MaxLen + 1)

(* --------------------------- Python values ----------------------------- *)

NoneV == [t |-> "None"]
IntV(n) == [t |-> "int", i |-> n]
StrV(s) == [t |-> "str", s |-> s]
BoolV(b) == [t |-> "bool", b |-> b]
ListV(l) == [t |-> "list", l |-> l]
DictV(ks, m) == [t |-> "dict", keys |-> ks, map |-> m]
Raised(e) == [t |-> "raise", e |-> e]

\* Python's truth value of an object: None, 0, "", [] and False are false
Truthy(v) ==
  CASE v.t = "None" -> FALSE
    [] v.t = "int" -> v.i # 0
    [] v.t = "str" -> v.s # ""
    [] v.t = "bool" -> v.b
    [] v.t = "list" -> v.l # <<>>
    [] OTHER -> TRUE

\* an argument that is a string, or a list / tuple of candidate strings
XStr(s) == [kind |-> "str", s |-> s]
XColl(k, items) == [kind |-> k, items |-> items]
is_collection(x) == x.kind # "str"

\* str.startswith(prefix) for a string prefix
StartsWith(arg, p) == Len(p) <= Len(arg) /\ SubSeq(arg, 1, Len(p)) = p
\* the operator "p in arg" on strings
StrIn(p, arg) == \E k \in 1..(Len(arg) - Len(p) + 1) : SubSeq(arg, k, k + Len(p) - 1) = p

\* the 1-based position list indexing reads for a Python index, 0 when out of range
PyPos(l, n) ==
  IF n >= 0 /\ n < Len(l) THEN n + 1
  ELSE IF n < 0 /\ n >= 0 - Len(l) THEN Len(l) + n + 1
  ELSE 0

\* list.__getitem__: l[iv]
ListGetItem(l, iv) ==
  IF iv.t # "int" THEN Raised("TypeError")
  ELSE IF PyPos(l, iv.i) = 0 THEN Raised("IndexError")
  ELSE StrV(l[PyPos(l, iv.i)])

\* list.index(s): 0-based index of the first element equal to s
ListIndex(l, s) ==
  IF \E k \in 1..Len(l) : l[k] = s
  THEN IntV((CHOOSE k \in 1..Len(l) : l[k] = s /\ \A j \in 1..(k - 1) : l[j] # s) - 1)
  ELSE Raised("ValueError")

\* list.pop(iv): the value returned (or raised) and the list afterwards
ListPop(l, iv) ==
  IF iv.t # "int" THEN [ret |-> Raised("TypeError"), l |-> l]
  ELSE IF PyPos(l, iv.i) = 0 THEN [ret |-> Raised("IndexError"), l |-> l]
  ELSE [ret |-> StrV(l[PyPos(l, iv.i)]),
        l |-> SubSeq(l, 1, PyPos(l, iv.i) - 1) \o SubSeq(l, PyPos(l, iv.i) + 1, Len(l))]

\* try: v  except exc: return alt
Except(v, exc, alt) == IF v = Raised(exc) THEN alt ELSE v

(* ------------------------- Args: constructor --------------------------- *)

\* Args.__init__(args, no_argv) with the process arguments av: the list the new
\* object stores, and whether it is the very list object that was passed in
Args__init__(args, no_argv, av) ==
  IF ~Truthy(args)
  THEN IF ~no_argv
       THEN [alias |-> FALSE, l |-> Tail(av)]
       ELSE [alias |-> FALSE, l |-> <<>>]
  ELSE [alias |-> TRUE, l |-> args.l]

(* --------------------------- Args: accessors --------------------------- *)

\* get without its except clause
get_uncaught(all, iv) == ListGetItem(all, iv)

\* Args.get(x)
get(all, iv) == Except(ListGetItem(all, iv), "IndexError", NoneV)

\* Args.__getitem__(i)
getitem(all, iv) == Except(ListGetItem(all, iv), "IndexError", NoneV)

\* Args.has(x)
has(all, iv) ==
  LET e == ListGetItem(all, iv)
  IN IF e.t = "raise" THEN Except(e, "IndexError", BoolV(FALSE)) ELSE BoolV(TRUE)

\* Args.last
last(all) == Except(ListGetItem(all, IntV(-1)), "IndexError", NoneV)

\* _find of Args.first: str(x) of a string is the string itself
first_find(all, s) == Except(ListIndex(all, s), "ValueError", NoneV)

RECURSIVE first_scan(_, _)
first_scan(all, items) ==
  IF items = <<>> THEN NoneV
  ELSE LET found == first_find(all, Head(items))
       IN IF found.t # "None" THEN found ELSE first_scan(all, Tail(items))

\* Args.first(x)
first(all, x) ==
  IF is_collection(x) THEN first_scan(all, x.items) ELSE first_find(all, x.s)

\* Args.__contains__(x) and Args.contains(x)
contains(all, x) == BoolV(first(all, x).t # "None")

\* _find of Args.first_with: index() of the first argument that contains s;
\* the loop falling through returns None
first_with_find(all, s) ==
  IF \E k \in 1..Len(all) : StrIn(s, all[k])
  THEN LET k == CHOOSE k \in 1..Len(all) :
                  StrIn(s, all[k]) /\ \A j \in 1..(k - 1) : ~StrIn(s, all[j])
       IN Except(ListIndex(all, all[k]), "ValueError", NoneV)
  ELSE NoneV

RECURSIVE first_with_scan(_, _)
first_with_scan(all, items) ==
  IF items = <<>> THEN NoneV
  ELSE LET found == first_with_find(all, Head(items))
       IN IF Truthy(found) THEN found ELSE first_with_scan(all, Tail(items))

\* Args.first_with(x)
first_with(all, x) ==
  IF is_collection(x) THEN first_with_scan(all, x.items) ELSE first_with_find(all, x.s)

\* Args.get_with(x)
get_with(all, x) == ListGetItem(all, first_with(all, x))

\* value_after returning the element found instead of the one after it
value_after_same(all, x) ==
  LET i == IF is_collection(x) THEN Raised("ValueError") ELSE ListIndex(all, x.s)
  IN IF i.t = "raise" THEN Except(i, "ValueError", NoneV)
     ELSE Except(ListGetItem(all, IntV(i.i)), "IndexError", NoneV)

\* Args.value_after(x): list.index(x) of a list or tuple x finds nothing
value_after(all, x) ==
  LET i == IF is_collection(x) THEN Raised("ValueError") ELSE ListIndex(all, x.s)
  IN IF i.t = "raise" THEN Except(i, "ValueError", NoneV)
     ELSE Except(ListGetItem(all, IntV(i.i + 1)), "IndexError", NoneV)

\* Args.contains_at(x, index): the collection form returns on its first candidate
contains_at(all, x, iv) ==
  IF is_collection(x) /\ x.items = <<>> THEN NoneV
  ELSE LET e == ListGetItem(all, iv)
           c == IF is_collection(x) THEN Head(x.items) ELSE x.s
       IN IF e.t = "raise" THEN Except(e, "IndexError", BoolV(FALSE))
          ELSE IF is_collection(x) THEN BoolV(StrIn(c, e.s) \/ c = e.s)
          ELSE BoolV(StrIn(c, e.s))

\* arg.startswith(x): a str or a tuple of str is accepted, a list is a TypeError
PyStartsWith(arg, x) ==
  CASE x.kind = "str" -> BoolV(StartsWith(arg, x.s))
    [] x.kind = "tuple" -> BoolV(\E k \in 1..Len(x.items) : StartsWith(arg, x.items[k]))
    [] OTHER -> Raised("TypeError")

RECURSIVE start_with_loop(_, _, _)
start_with_loop(rest, x, acc) ==
  IF rest = <<>> THEN ListV(acc)
  ELSE IF is_collection(x) /\ x.items = <<>> THEN start_with_loop(Tail(rest), x, acc)
  ELSE LET r == PyStartsWith(Head(rest), x)
       IN IF r.t = "raise" THEN r
          ELSE IF r.b THEN start_with_loop(Tail(rest), x, Append(acc, Head(rest)))
          ELSE start_with_loop(Tail(rest), x, acc)

\* Args.start_with(x): the arguments kept, wrapped by Args(_args, no_argv=True)
start_with(all, x, av) ==
  LET r == start_with_loop(all, x, <<>>)
  IN IF r.t = "raise" THEN r ELSE ListV(Args__init__(r, TRUE, av).l)

\* Args.flags
flags(all, av) == start_with(all, XStr("-"), av)

\* plain assignment in place of setdefault: a flag seen again starts over
setdefault_assign(d, k, v) ==
  IF k \in DOMAIN d.map THEN DictV(d.keys, [d.map EXCEPT ![k] = v])
  ELSE DictV(Append(d.keys, k), [j \in DOMAIN d.map \cup {k} |-> IF j = k THEN v ELSE d.map[j]])

\* OrderedDict.setdefault(k, v) as grouped uses it: a key already present keeps
\* its place and its value
setdefault(d, k, v) ==
  IF k \in DOMAIN d.map THEN d
  ELSE DictV(Append(d.keys, k), [j \in DOMAIN d.map \cup {k} |-> IF j = k THEN v ELSE d.map[j]])

RECURSIVE grouped_loop(_, _, _, _)
grouped_loop(rest, cur, d, av) ==
  IF rest = <<>> THEN d
  ELSE LET arg == Head(rest)
       IN IF StartsWith(arg, "-")
          THEN grouped_loop(Tail(rest), StrV(arg),
                            setdefault(d, arg, Args__init__(NoneV, TRUE, av).l), av)
          ELSE IF Truthy(cur)
               THEN grouped_loop(Tail(rest), cur,
                                 DictV(d.keys, [d.map EXCEPT ![cur.s] = Append(@, arg)]), av)
               ELSE grouped_loop(Tail(rest), cur,
                                 DictV(d.keys, [d.map EXCEPT !["_"] = Append(@, arg)]), av)

\* Args.grouped: the OrderedDict as its key order and its key -> list map
grouped(all, av) ==
  grouped_loop(all, NoneV,
               DictV(<<"_">>, [k \in {"_"} |-> Args__init__(NoneV, TRUE, av).l]), av)

(* ---------------------------- Args: mutators --------------------------- *)

\* _remove testing "if found:" where the code tests "is not None"
remove_once_truthy(all, x) ==
  LET found == first(all, x)
  IN IF Truthy(found) THEN ListPop(all, found).l ELSE all

\* _remove of Args.remove
remove_once(all, x) ==
  LET found == first(all, x)
  IN IF found.t # "None" THEN ListPop(all, found).l ELSE all

RECURSIVE remove_loop(_, _, _)
remove_loop(all, x, n) ==
  IF n = 0 THEN all ELSE remove_loop(remove_once(all, x), x, n - 1)

\* Args.remove(x): the loop over a collection looks the whole collection up
\* once per item
remove(all, x) ==
  IF is_collection(x) THEN remove_loop(all, x, Len(x.items)) ELSE remove_once(all, x)

\* pop reading the element without taking it out
pop_keep(all, iv) ==
  LET r == ListPop(all, iv)
  IN [ret |-> Except(r.ret, "IndexError", NoneV), l |-> all]

\* Args.pop(x)
pop(all, iv) ==
  LET r == ListPop(all, iv)
  IN [ret |-> Except(r.ret, "IndexError", NoneV), l |-> r.l]

(* ----------------------------- the state ------------------------------- *)

VARIABLES
  argv,       \* sys.argv of the process
  given,      \* what the caller passes as args: "None" or "caller" (its own list)
  explicit,   \* the contents of the caller's list when the program starts
  heap,       \* the list objects: cell -> contents
  self_args,  \* the cell Args._args of the constructed object refers to, or "null"
  copy_args,  \* the cell _args of the object returned by copy refers to, or "null"
  op          \* the last call: its name, its target, its arguments, what it returned
              \* and the heap it started from

vars == <<argv, given, explicit, heap, self_args, copy_args, op>>

\* the caller's list, the list made by the constructor, the list made by copy's
Cells == {"caller", "self", "copy"}

\* the arguments operations are called with
Strs(T) == {XStr(s) : s \in T}
Colls(T, kinds) == {XColl(k, items) : k \in kinds, items \in SeqsUpTo(T, MaxCand)}
IntVs == {IntV(n) : n \in Indices}

Start(lists) ==
  /\ argv \in ArgvSet
  /\ given \in {"None", "caller"}
  /\ explicit \in IF given = "caller" THEN lists ELSE {<<>>}
  /\ heap = [c \in Cells |-> IF c = "caller" THEN explicit ELSE <<>>]
  /\ self_args = "null"
  /\ copy_args = "null"
  /\ op = [name |-> "start"]

\* the caller's explicit sequence, mutable lists
Init == Start(SeqsUpTo(MutTokens, MaxLen))
\* the caller's explicit sequence, queried lists
InitQuery == Start(SeqsUpTo(Tokens, MaxLen) \cup Examples)

\* the list of the object `tgt`
Ref(tgt) == IF tgt = "self" THEN self_args ELSE copy_args
All(tgt) == heap[Ref(tgt)]
Constructed == self_args # "null"

\* Args(args, no_argv) called by the program
Construct(no_argv) ==
  /\ self_args = "null"
  /\ LET args == IF given = "None" THEN NoneV ELSE ListV(heap["caller"])
         r == Args__init__(args, no_argv, argv)
     IN /\ self_args' = IF r.alias THEN "caller" ELSE "self"
        /\ heap' = IF r.alias THEN heap ELSE [heap EXCEPT !["self"] = r.l]
        /\ op' = [name |-> "init", no_argv |-> no_argv, before |-> heap]
  /\ UNCHANGED <<argv, given, explicit, copy_args>>

\* Args.copy: Args(self.all)
Copy ==
  /\ Constructed
  /\ copy_args = "null"
  /\ LET r == Args__init__(ListV(All("self")), FALSE, argv)
     IN /\ copy_args' = IF r.alias THEN self_args ELSE "copy"
        /\ heap' = IF r.alias THEN heap ELSE [heap EXCEPT !["copy"] = r.l]
        /\ op' = [name |-> "copy", before |-> heap]
  /\ UNCHANGED <<argv, given, explicit, self_args>>

\* tgt.remove(x)
Remove(tgt, x) ==
  /\ Ref(tgt) # "null"
  /\ heap' = [heap EXCEPT ![Ref(tgt)] = remove(@, x)]
  /\ op' = [name |-> "remove", tgt |-> tgt, x |-> x, ret |-> NoneV, before |-> heap]
  /\ UNCHANGED <<argv, given, explicit, self_args, copy_args>>

\* tgt.pop(i)
Pop(tgt, iv) ==
  /\ Ref(tgt) # "null"
  /\ heap' = [heap EXCEPT ![Ref(tgt)] = pop(@, iv).l]
  /\ op' = [name |-> "pop", tgt |-> tgt, x |-> iv, ret |-> pop(All(tgt), iv).ret,
            before |-> heap]
  /\ UNCHANGED <<argv, given, explicit, self_args, copy_args>>

\* an accessor of the constructed object returning ret; accessors leave the
\* object as it is, so each is called on the object as constructed
Query(name, x, ret) ==
  /\ Constructed
  /\ op.name = "init"
  /\ op' = [name |-> name, tgt |-> "self", x |-> x, ret |-> ret, before |-> heap]
  /\ UNCHANGED <<argv, given, explicit, heap, self_args, copy_args>>

Get == \E iv \in IntVs : Query("get", iv, get(All("self"), iv))
GetItem == \E iv \in IntVs : Query("getitem", iv, getitem(All("self"), iv))
Has == \E iv \in IntVs : Query("has", iv, has(All("self"), iv))
Last == Query("last", NoneV, last(All("self")))
First == \E x \in Strs(Tokens) \cup Colls(Tokens, {"list"}) :
           Query("first", x, first(All("self"), x))
FirstWith == \E x \in Strs(Tokens) \cup Colls(Tokens, {"list"}) :
               Query("first_with", x, first_with(All("self"), x))
GetWith == \E x \in Strs(Tokens) : Query("get_with", x, get_with(All("self"), x))
ValueAfter == \E x \in Strs(Tokens) : Query("value_after", x, value_after(All("self"), x))
ContainsAt == \E x \in Strs(Tokens), iv \in IntVs :
                Query("contains_at", [x |-> x, i |-> iv], contains_at(All("self"), x, iv))
StartWith == \E x \in Strs(Tokens) \cup Colls(Tokens, {"list", "tuple"}) :
               Query("start_with", x, start_with(All("self"), x, argv))
Flags == Query("flags", NoneV, flags(All("self"), argv))
Grouped == Query("grouped", NoneV, grouped(All("self"), argv))
\* pop as an accessor: what it returns
PopQuery == \E iv \in IntVs : Query("pop", iv, pop(All("self"), iv).ret)

MutArgs == Strs(MutTokens) \cup Colls(MutTokens, {"list"})

\* construction, then remove and pop in any order
Next ==
  \/ \E b \in BOOLEAN : Construct(b)
  \/ \E x \in MutArgs : Remove("self", x)
  \/ \E iv \in IntVs : Pop("self", iv)

Spec == Init /\ [][Next]_vars

\* construction, one copy, then remove and pop on the object or on its copy
NextCopy ==
  \/ \E b \in BOOLEAN : Construct(b)
  \/ Copy
  \/ \E tgt \in {"self", "copy"}, x \in MutArgs : Remove(tgt, x)
  \/ \E tgt \in {"self", "copy"}, iv \in IntVs : Pop(tgt, iv)

SpecCopy == Init /\ [][NextCopy]_vars

\* construction, then the accessors
NextQuery ==
  \/ \E b \in BOOLEAN : Construct(b)
  \/ Get \/ GetItem \/ Has \/ Last \/ First \/ FirstWith \/ GetWith
  \/ ValueAfter \/ ContainsAt \/ StartWith \/ Flags \/ Grouped \/ PopQuery

SpecQuery == InitQuery /\ [][NextQuery]_vars

(* ------------------------ what the claims speak of --------------------- *)

Self == heap[self_args]
Before == op.before[self_args]
IsFlag(s) == Len(s) >= 1 /\ SubSeq(s, 1, 1) = "-"
Count(l, s) == Cardinality({k \in 1..Len(l) : l[k] = s})
Occurs(l, s) == \E k \in 1..Len(l) : l[k] = s
Min(S) == CHOOSE m \in S : \A k \in S : m <= k
Max(S) == CHOOSE m \in S : \A k \in S : k <= m

\* the elements of l at the positions in S, in order
RECURSIVE PickIdx(_, _)
PickIdx(l, S) == IF S = {} THEN <<>> ELSE Append(PickIdx(l, S \ {Max(S)}), l[Max(S)])

\* s is t with some elements left out
RECURSIVE IsSubseq(_, _)
IsSubseq(s, t) ==
  IF s = <<>> THEN TRUE
  ELSE IF t = <<>> THEN FALSE
  ELSE IF Head(s) = Head(t) THEN IsSubseq(Tail(s), Tail(t))
  ELSE IsSubseq(s, Tail(t))

MutOps == {"remove", "pop"}

(* -------------------------------- C1 ----------------------------------- *)

\* C1: once a copy exists, a remove or pop on the copy leaves the original's
\* contents (and length) as they were, and a remove or pop on the original
\* leaves the copy as it was.
C1_CopyIndependent ==
  (copy_args # "null" /\ op.name \in MutOps) =>
     /\ op.tgt = "copy" => heap[self_args] = op.before[self_args]
     /\ op.tgt = "self" => heap[copy_args] = op.before[copy_args]

(* -------------------------------- C2 ----------------------------------- *)

Accessors == {"get", "getitem", "pop", "has", "contains_at", "first", "first_with",
              "get_with", "value_after", "last"}

\* C2: no accessor raises; a lookup that misses yields absent, in particular
\* get_with(s) yields None when no element contains s.
C2_NoAccessorRaises ==
  /\ op.name \in Accessors => op.ret.t # "raise"
  /\ (op.name = "get_with" /\ \A k \in 1..Len(Self) : ~StrIn(op.x.s, Self[k]))
        => op.ret = NoneV

(* -------------------------------- C3 ----------------------------------- *)

C3_Pre ==
  /\ op.name = "remove"
  /\ IF is_collection(op.x)
     THEN \A k \in 1..Len(op.x.items) : Count(Before, op.x.items[k]) <= 1
     ELSE Count(Before, op.x.s) = 1

\* C3: after remove(x), contains(x) is false when x occurred exactly once before
\* the call, and, for a collection x, when each candidate occurred at most once.
C3_RemoveThenContains == C3_Pre => contains(Self, op.x) = BoolV(FALSE)

\* a collection of two different candidates, each present once, was removed
C3_Witness ==
  /\ C3_Pre
  /\ is_collection(op.x)
  /\ Len(op.x.items) = 2
  /\ op.x.items[1] # op.x.items[2]
  /\ Count(Before, op.x.items[1]) = 1
  /\ Count(Before, op.x.items[2]) = 1

(* -------------------------------- C4 ----------------------------------- *)

FlagPos(all) == {k \in 1..Len(all) : IsFlag(all[k])}
\* the flags of all, each at its first occurrence, in order
FirstSeenFlags(all) ==
  PickIdx(all, {k \in FlagPos(all) : \A j \in 1..(k - 1) : all[j] # all[k]})
\* the positions of the non-flag tokens whose most recent flag is f
Owned(all, f) ==
  {k \in 1..Len(all) \ FlagPos(all) :
     /\ \E j \in FlagPos(all) : j < k
     /\ all[Max({j \in FlagPos(all) : j < k})] = f}
Ungrouped(all) == {k \in 1..Len(all) : \A j \in 1..k : ~IsFlag(all[j])}
RECURSIVE SumLen(_, _)
SumLen(map, ks) ==
  IF ks = {} THEN 0
  ELSE LET k == CHOOSE k \in ks : TRUE IN Len(map[k]) + SumLen(map, ks \ {k})

\* C4: grouped always has the key "_", holding the tokens before the first
\* flag; the keys are "_" and then the flags in first-seen order; each non-flag
\* token after a flag is in the group of the most recent flag, a repeated flag
\* continuing its group; the groups together hold each non-flag token once; and
\* ["-a","1","2","-b","3"] gives "_" = [], "-a" = ["1","2"], "-b" = ["3"].
C4_Grouped ==
  op.name = "grouped" =>
    LET d == op.ret
    IN /\ d.t = "dict"
       /\ "_" \in DOMAIN d.map
       /\ d.map["_"] = PickIdx(Self, Ungrouped(Self))
       /\ d.keys = <<"_">> \o FirstSeenFlags(Self)
       /\ DOMAIN d.map = {"_"} \cup {Self[k] : k \in FlagPos(Self)}
       /\ \A k \in FlagPos(Self) : d.map[Self[k]] = PickIdx(Self, Owned(Self, Self[k]))
       /\ SumLen(d.map, DOMAIN d.map) = Len(Self) - Cardinality(FlagPos(Self))
       /\ Self = <<"-a", "1", "2", "-b", "3">> =>
            /\ d.keys = <<"_", "-a", "-b">>
            /\ d.map["_"] = <<>>
            /\ d.map["-a"] = <<"1", "2">>
            /\ d.map["-b"] = <<"3">>

\* grouped was taken of a list that repeats a flag with tokens after each
C4_Witness ==
  /\ op.name = "grouped"
  /\ Self = <<"x", "-a", "1", "-b", "2", "-a", "3">>
  /\ op.ret.map["-a"] = <<"1", "3">>

(* -------------------------------- C5 ----------------------------------- *)

\* C5: constructed from an explicit sequence, the list holds exactly that
\* sequence, the empty one included; the process arguments without the program
\* name are used only when no sequence is given and no_argv is not set.
C5_ExplicitSequenceKept ==
  op.name = "init" =>
    /\ given = "caller" => Self = explicit
    /\ given = "None" => Self = IF op.no_argv THEN <<>> ELSE Tail(argv)

(* -------------------------------- C6 ----------------------------------- *)

\* C6 as stated: get(i) is the i-th token for 0 <= i < length and absent for
\* every other i, negative ones included; has(i) is true exactly for
\* 0 <= i < length.
C6_GetHasZeroBased ==
  /\ op.name = "get" =>
       op.ret = IF 0 <= op.x.i /\ op.x.i < Len(Self) THEN StrV(Self[op.x.i + 1]) ELSE NoneV
  /\ op.name = "has" => op.ret = BoolV(0 <= op.x.i /\ op.x.i < Len(Self))

\* C6 amended: get(i) is the i-th token for 0 <= i < length, the token at
\* length + i for -length <= i < 0, and absent for every other i; has(i) is true
\* exactly for -length <= i < length.
C6_GetHasFromEitherEnd ==
  /\ op.name = "get" =>
       op.ret = IF 0 <= op.x.i /\ op.x.i < Len(Self) THEN StrV(Self[op.x.i + 1])
                ELSE IF op.x.i < 0 /\ 0 - Len(Self) <= op.x.i
                     THEN StrV(Self[Len(Self) + op.x.i + 1])
                ELSE NoneV
  /\ op.name = "has" => op.ret = BoolV(0 - Len(Self) <= op.x.i /\ op.x.i < Len(Self))

\* get was called with a negative index that counts from the end
C6_Witness ==
  /\ op.name = "get"
  /\ op.x.i < -1
  /\ op.ret.t = "str"

(* -------------------------------- C7 ----------------------------------- *)

\* C7: value_after(x) is the element right after the first element equal to x,
\* also when x occurs again later or is followed by itself; it is absent when x
\* does not occur or first occurs last; the list is unchanged.
C7_ValueAfter ==
  op.name = "value_after" =>
    /\ op.ret = IF Occurs(Self, op.x.s)
                THEN LET k == Min({j \in 1..Len(Self) : Self[j] = op.x.s})
                     IN IF k < Len(Self) THEN StrV(Self[k + 1]) ELSE NoneV
                ELSE NoneV
    /\ heap = op.before

\* x occurs more than once and something else follows its first occurrence
C7_Witness ==
  /\ op.name = "value_after"
  /\ Count(Self, op.x.s) >= 2
  /\ op.ret.t = "str"
  /\ op.ret.s # op.x.s

(* -------------------------------- C8 ----------------------------------- *)

\* C8: start_with(x) is a list of exactly the elements that start with x, or
\* with at least one candidate of a collection x, each once and in order;
\* flags is start_with("-").
C8_StartingWith ==
  /\ op.name = "start_with" =>
       op.ret = ListV(PickIdx(Self,
                  {k \in 1..Len(Self) :
                     IF is_collection(op.x)
                     THEN \E c \in 1..Len(op.x.items) : StartsWith(Self[k], op.x.items[c])
                     ELSE StartsWith(Self[k], op.x.s)}))
  /\ op.name = "flags" =>
       /\ op.ret = ListV(PickIdx(Self, {k \in 1..Len(Self) : StartsWith(Self[k], "-")}))
       /\ Self = <<"-a", "b", "-c">> => op.ret = ListV(<<"-a", "-c">>)

(* -------------------------------- C9 ----------------------------------- *)

Holds(all, s) == {k \in 1..Len(all) : StrIn(s, all[k])}

\* C9: first_with of a collection scans the candidates in order and returns the
\* first index containing the first candidate contained in any element, index 0
\* included; it is absent only when no candidate is contained in any element.
C9_FirstWithCandidates ==
  (op.name = "first_with" /\ is_collection(op.x)) =>
    LET hit == {c \in 1..Len(op.x.items) : Holds(Self, op.x.items[c]) # {}}
    IN op.ret = IF hit = {} THEN NoneV
                ELSE IntV(Min(Holds(Self, op.x.items[Min(hit)])) - 1)

(* -------------------------------- C10 ---------------------------------- *)

C10_Pre == Constructed /\ given = "caller" /\ explicit # <<>>

\* C10: on a list built from an explicit non-empty sequence, after any remove
\* and pop calls the tokens are the initial ones with some left out, in order;
\* pop(i) with i in range (counted from either end, as list indexing does)
\* returns the element that was at i and shortens the list by one; pop with an
\* index out of range and remove of a value that does not occur return None and
\* leave the list as it was.
C10_MutationsKeepOrder ==
  C10_Pre =>
    /\ IsSubseq(Self, explicit)
    /\ op.name = "pop" =>
         IF 0 - Len(Before) <= op.x.i /\ op.x.i < Len(Before)
         THEN LET k == IF op.x.i >= 0 THEN op.x.i + 1 ELSE Len(Before) + op.x.i + 1
              IN /\ op.ret = StrV(Before[k])
                 /\ Len(Self) = Len(Before) - 1
                 /\ Self = PickIdx(Before, (1..Len(Before)) \ {k})
         ELSE op.ret = NoneV /\ Self = Before
    /\ (op.name = "remove" /\
        IF is_collection(op.x)
        THEN \A c \in 1..Len(op.x.items) : ~Occurs(Before, op.x.items[c])
        ELSE ~Occurs(Before, op.x.s))
         => op.ret = NoneV /\ Self = Before

\* a pop in range on a list that an earlier call had already shortened
C10_Witness ==
  /\ C10_Pre
  /\ op.name = "pop"
  /\ op.ret.t = "str"
  /\ Len(Self) + 2 <= Len(explicit)

====
